---- MODULE Spec2Model ----
(***************************************************************************)
(* Model of the two command-line wrappers of pianoscorefromyoutube:        *)
(*   src/main/demucs_runner.py   (the "neural" wrapper)                    *)
(*   src/main/spleeter_runner.py (the "spectrogram" wrapper)               *)
(* A run is a process that parses its command line, (demucs only) checks   *)
(* the input file and creates the output directory, spawns the external    *)
(* tool and exits with a status derived from the tool's return code.       *)
(* The file system is shared by the runs; every operating-system call of   *)
(* a run is one atomic step, so concurrent runs interleave between calls.  *)
(***************************************************************************)
EXTENDS Integers, Sequences, FiniteSets, TLC

VARIABLES
    script,     \* script[p]   : which wrapper run p executes
    argv,       \* argv[p]     : the command-line tokens of run p (sys.argv[1:])
    pc,         \* pc[p]       : position of run p in main()
    args,       \* args[p]     : the argparse namespace of run p
    fs,         \* fs[n]       : kind of the file-system entry named n
    fs0,        \* fs0[n]      : kind of the entry named n when the runs started
    mk,         \* mk[p]       : the stack of os.makedirs frames of run p
    calls,      \* calls[p]    : the operating-system calls run p has made, in order
    stderr,     \* stderr[p]   : what run p has written to standard error
    child,      \* child[p]    : <<c>> once the child of run p has ended with code c
    ret,        \* ret[p]      : <<r>> once main() of run p has returned r
    exitcode    \* exitcode[p] : <<s>> once the process of run p has ended with status s

vars == <<script, argv, pc, args, fs, fs0, mk, calls, stderr, child, ret, exitcode>>

(***************************************************************************)
(* Bounds of the model.                                                    *)
(***************************************************************************)
\* the largest number of option groups on a command line
MaxOpts == 3

(***************************************************************************)
(* The values the model draws its inputs from.                             *)
(***************************************************************************)
\* the path names that occur on command lines and in the file system
PathNames == {"song.wav", "out", "out/sub"}

\* a selector value a user may pass
SelNames == {"mdx"}

\* os.path.split(name)[0] for the path names of the model ("" is the
\* current directory, which always exists)
Parent(n) == IF n = "out/sub" THEN "out" ELSE ""

\* return codes subprocess reports: exit statuses, and -N for a child
\* killed by signal N
ChildCodes == {0, 1, 2, 255, -9, -15}

\* the interpreter running the wrapper
Executable == "python"

Scripts == {"demucs", "spleeter"}

(***************************************************************************)
(* The file system.                                                        *)
(***************************************************************************)
Kinds == {"absent", "file", "dir", "rodir"}

Kind(f, n) == IF n \in DOMAIN f THEN f[n] ELSE "absent"

\* os.path.isfile
IsFileAny(f, n) == Kind(f, n) # "absent"

IsFile(f, n) == Kind(f, n) = "file"

\* os.path.isdir
IsDir(f, n) == Kind(f, n) \in {"dir", "rodir"}

\* os.path.exists
Exists(f, n) == Kind(f, n) # "absent"

\* a file system in which every entry lies in a directory
WellFormed(f) ==
    \A n \in DOMAIN f :
        (f[n] # "absent" /\ Parent(n) # "") => IsDir(f, Parent(n))

FileSystems == {f \in [PathNames -> Kinds] : WellFormed(f)}

\* the error os.mkdir(n) raises, "" when it succeeds
MkdirError(f, n) ==
    CASE n \notin DOMAIN f -> "FileNotFoundError"
      [] Exists(f, n) -> "FileExistsError"
      [] Parent(n) # "" /\ Kind(f, Parent(n)) = "absent" -> "FileNotFoundError"
      [] Parent(n) # "" /\ Kind(f, Parent(n)) = "file" -> "NotADirectoryError"
      [] Parent(n) # "" /\ Kind(f, Parent(n)) = "rodir" -> "PermissionError"
      [] OTHER -> ""

(***************************************************************************)
(* argparse.                                                               *)
(***************************************************************************)
\* the selector flag of each wrapper and its default
SelFlag(w) == IF w = "demucs" THEN "--model" ELSE "--preset"

DefaultSelector(w) == IF w = "demucs" THEN "htdemucs" ELSE "spleeter:2stems"

\* the flags declared required=True
RequiredOutputOptional == {"--input"}

Required == {"--input", "--output"}

HelpFlags == {"-h", "--help"}

\* the tokens that start with "-" and so are never taken as a flag's value
OptionTokens == {"--input", "--output", "--model", "--preset", "-h", "--help"}

Absent == ""

Namespace(kind, i, o, s) == [kind |-> kind, input |-> i, output |-> o, selector |-> s]

\* the namespace before parsing: parse_args has not returned
NoArgs == Namespace("none", Absent, Absent, Absent)

\* ArgumentParser.parse_args on the tokens toks of wrapper w, scanning from
\* token i; seen are the flags given so far, extras whether an unrecognized
\* token was met.  kind "help": -h printed the help and exited with 0;
\* kind "usage": parser.error exited with 2; kind "ok": the namespace.
RECURSIVE Scan(_, _, _, _, _, _)
Scan(w, toks, i, ns, seen, extras) ==
    IF i > Len(toks)
    THEN IF ~(Required \subseteq seen) \/ extras
         THEN [ns EXCEPT !.kind = "usage"]
         ELSE [ns EXCEPT !.kind = "ok"]
    ELSE LET t == toks[i] IN
         IF t \in HelpFlags
         THEN [ns EXCEPT !.kind = "help"]
         ELSE IF t \in {"--input", "--output", SelFlag(w)}
         THEN IF i + 1 > Len(toks) \/ toks[i + 1] \in OptionTokens
              THEN [ns EXCEPT !.kind = "usage"]
              ELSE LET v == toks[i + 1] IN
                   Scan(w, toks, i + 2,
                        CASE t = "--input" -> [ns EXCEPT !.input = v]
                          [] t = "--output" -> [ns EXCEPT !.output = v]
                          [] OTHER -> [ns EXCEPT !.selector = v],
                        seen \cup {t}, extras)
         ELSE Scan(w, toks, i + 1, ns, seen, TRUE)

ParseArgs(w, toks) ==
    Scan(w, toks, 1, Namespace("none", Absent, Absent, DefaultSelector(w)), {}, FALSE)

\* the exit statuses argparse ends the process with
UsageStatus == 2

HelpStatus == 0

(***************************************************************************)
(* The command vectors.                                                    *)
(***************************************************************************)
DemucsCmdSwapped(a) ==
    <<Executable, "-m", "demucs", "-n", a.selector, "-o", a.input, a.output>>

DemucsCmd(a) ==
    <<Executable, "-m", "demucs", "-n", a.selector, "-o", a.output, a.input>>

SpleeterCmdSwapped(a) ==
    <<Executable, "-m", "spleeter", "separate", "-p", a.selector,
      "-i", a.output, "-o", a.input>>

SpleeterCmd(a) ==
    <<Executable, "-m", "spleeter", "separate", "-p", a.selector,
      "-i", a.input, "-o", a.output>>

(***************************************************************************)
(* Return values and exit statuses.                                        *)
(***************************************************************************)
\* the value main() returns for a missing input file
InputMissingReturn == 1

\* the value main() of demucs_runner returns when subprocess.run raised
SpawnFailReturn == 1

\* the status of a process that ends by an uncaught exception
UncaughtStatus == 1

\* the value main() returns for a child that ended with return code c
ResultFlattened(c) == IF c = 0 THEN 0 ELSE 1

Result(c) == c

\* raise SystemExit(n): the status the parent of the wrapper observes
ExitStatus(n) == n % 256

\* os.makedirs(..., exist_ok=True)
ExistOkFalse == FALSE

ExistOk == TRUE

(***************************************************************************)
(* Records of the logs.                                                    *)
(***************************************************************************)
NoCmd == <<>>

Call(op, path, cmd, ok) == [op |-> op, path |-> path, cmd |-> cmd, ok |-> ok]

Msg(text, arg) == [text |-> text, arg |-> arg]

Frame(n, phase, err) == [name |-> n, phase |-> phase, err |-> err]

Procs == DOMAIN pc

\* run p ends with status s (the process is gone: no further step)
Exit(p, s) ==
    /\ pc' = [pc EXCEPT ![p] = "exit"]
    /\ exitcode' = [exitcode EXCEPT ![p] = <<s>>]

\* main() of run p returns r, and line "raise SystemExit(main())" ends the process
Return(p, r) ==
    /\ ret' = [ret EXCEPT ![p] = <<r>>]
    /\ Exit(p, ExitStatus(r))

\* an exception leaves main() of run p: the interpreter prints the traceback
Uncaught(p, err, log) ==
    /\ stderr' = [stderr EXCEPT ![p] = log \o <<Msg("Traceback", err)>>]
    /\ Exit(p, UncaughtStatus)
    /\ UNCHANGED ret

(***************************************************************************)
(* The command lines and the initial states.                               *)
(***************************************************************************)
\* what a user may append to a command line: a flag with its value, the
\* help flag, or a flag whose value is missing
Groups ==
    {<<"--input", n>> : n \in PathNames} \cup
    {<<"--output", n>> : n \in PathNames} \cup
    {<<f, s>> : f \in {"--model", "--preset"}, s \in SelNames} \cup
    {<<"-h">>, <<"--output">>}

RECURSIVE CmdLines(_)
CmdLines(k) ==
    IF k = 0 THEN {<<>>}
    ELSE LET shorter == CmdLines(k - 1) IN
         shorter \cup {c \o g : c \in shorter, g \in Groups}

\* the state of the runs in R before their first step
Start(R) ==
    /\ pc = [p \in R |-> "parse"]
    /\ args = [p \in R |-> NoArgs]
    /\ mk = [p \in R |-> <<>>]
    /\ calls = [p \in R |-> <<>>]
    /\ stderr = [p \in R |-> <<>>]
    /\ child = [p \in R |-> <<>>]
    /\ ret = [p \in R |-> <<>>]
    /\ exitcode = [p \in R |-> <<>>]

\* one run of either wrapper, on any command line and any file system
Init ==
    /\ script \in [{1} -> Scripts]
    /\ argv \in [{1} -> CmdLines(MaxOpts)]
    /\ fs \in FileSystems
    /\ fs0 = fs
    /\ Start({1})

(***************************************************************************)
(* parse_args, in both wrappers.                                           *)
(***************************************************************************)
\* parser.parse_args() of run p; on success the run writes log and goes to next
Parse(p, next, log) ==
    LET a == ParseArgs(script[p], argv[p]) IN
    /\ args' = [args EXCEPT ![p] = a]
    /\ CASE a.kind = "help" ->
              /\ Exit(p, HelpStatus)
              /\ UNCHANGED <<stderr, ret>>
         [] a.kind = "usage" ->
              /\ stderr' = [stderr EXCEPT ![p] = @ \o <<Msg("usage", <<>>)>>]
              /\ Exit(p, UsageStatus)
              /\ UNCHANGED ret
         [] OTHER ->
              /\ stderr' = [stderr EXCEPT ![p] = @ \o log]
              /\ pc' = [pc EXCEPT ![p] = next]
              /\ UNCHANGED <<ret, exitcode>>
    /\ UNCHANGED <<fs0, script, argv, fs, mk, calls, child>>

(***************************************************************************)
(* demucs_runner.main                                                      *)
(***************************************************************************)
DebugLog(a) ==
    << Msg("Input file", <<a.input>>),
       Msg("Output directory", <<a.output>>),
       Msg("Model", <<a.selector>>) >>

DParse(p) ==
    /\ script[p] = "demucs"
    /\ pc[p] = "parse"
    /\ Parse(p, "validate", DebugLog(ParseArgs(script[p], argv[p])))

\* a variant of the check that does not create the output directory
DValidateNoMakedirs(p) ==
    /\ script[p] = "demucs"
    /\ pc[p] = "validate"
    /\ calls' = [calls EXCEPT ![p] =
                   @ \o <<Call("isfile", args[p].input, NoCmd, IsFile(fs, args[p].input))>>]
    /\ IF ~IsFile(fs, args[p].input)
       THEN /\ stderr' = [stderr EXCEPT ![p] =
                            @ \o <<Msg("Error: Input file not found", <<args[p].input>>)>>]
            /\ Return(p, InputMissingReturn)
       ELSE /\ pc' = [pc EXCEPT ![p] = "spawn"]
            /\ UNCHANGED <<stderr, ret, exitcode>>
    /\ UNCHANGED <<fs0, script, argv, args, fs, mk, child>>

\* a variant of the check that creates the output directory before it
\* looks at the input
DValidateAfterMkdir(p) ==
    /\ script[p] = "demucs"
    /\ pc[p] = "validate"
    /\ calls' = [calls EXCEPT ![p] =
                   @ \o <<Call("isfile", args[p].input, NoCmd, IsFile(fs, args[p].input))>>]
    /\ IF ~IsFile(fs, args[p].input)
       THEN /\ stderr' = [stderr EXCEPT ![p] =
                            @ \o <<Msg("Error: Input file not found", <<args[p].input>>)>>]
            /\ fs' = IF MkdirError(fs, args[p].output) = ""
                     THEN [fs EXCEPT ![args[p].output] = "dir"] ELSE fs
            /\ Return(p, InputMissingReturn)
            /\ UNCHANGED mk
       ELSE /\ mk' = [mk EXCEPT ![p] = <<Frame(args[p].output, "exists", "")>>]
            /\ pc' = [pc EXCEPT ![p] = "makedirs"]
            /\ UNCHANGED <<stderr, ret, exitcode, fs>>
    /\ UNCHANGED <<fs0, script, argv, args, child>>

\* lines 19-22: the input check; on success os.makedirs is entered
DValidate(p) ==
    /\ script[p] = "demucs"
    /\ pc[p] = "validate"
    /\ calls' = [calls EXCEPT ![p] =
                   @ \o <<Call("isfile", args[p].input, NoCmd, IsFile(fs, args[p].input))>>]
    /\ IF ~IsFile(fs, args[p].input)
       THEN /\ stderr' = [stderr EXCEPT ![p] =
                            @ \o <<Msg("Error: Input file not found", <<args[p].input>>)>>]
            /\ Return(p, InputMissingReturn)
            /\ UNCHANGED mk
       ELSE /\ mk' = [mk EXCEPT ![p] = <<Frame(args[p].output, "exists", "")>>]
            /\ pc' = [pc EXCEPT ![p] = "makedirs"]
            /\ UNCHANGED <<stderr, ret, exitcode>>
    /\ UNCHANGED <<fs0, script, argv, args, fs, child>>

\* the frame on top of the makedirs stack of run p
Top(p) == Head(mk[p])

\* the frame on top returns normally: its caller goes on, and when
\* the outermost frame returns main() goes on to build the command
MkReturn(p) ==
    /\ mk' = [mk EXCEPT ![p] = Tail(@)]
    /\ pc' = [pc EXCEPT ![p] = IF Len(mk[p]) = 1 THEN "spawn" ELSE "makedirs"]

\* os.makedirs: "if head and tail and not path.exists(head)": recurse on head
MkExists(p) ==
    /\ script[p] = "demucs"
    /\ pc[p] = "makedirs"
    /\ Top(p).phase = "exists"
    /\ LET n == Top(p).name
           head == Parent(n) IN
       IF head # ""
       THEN /\ calls' = [calls EXCEPT ![p] = @ \o <<Call("exists", head, NoCmd, Exists(fs, head))>>]
            /\ mk' = [mk EXCEPT ![p] =
                        IF ~Exists(fs, head)
                        THEN <<Frame(head, "exists", ""), Frame(n, "mkdir", "")>> \o Tail(@)
                        ELSE <<Frame(n, "mkdir", "")>> \o Tail(@)]
       ELSE /\ mk' = [mk EXCEPT ![p] = <<Frame(n, "mkdir", "")>> \o Tail(@)]
            /\ UNCHANGED calls
    /\ UNCHANGED <<fs0, script, argv, pc, args, fs, stderr, child, ret, exitcode>>

\* os.makedirs: mkdir(name, mode)
MkMkdir(p) ==
    /\ script[p] = "demucs"
    /\ pc[p] = "makedirs"
    /\ Top(p).phase = "mkdir"
    /\ LET n == Top(p).name
           err == MkdirError(fs, n) IN
       /\ calls' = [calls EXCEPT ![p] = @ \o <<Call("mkdir", n, NoCmd, err = "")>>]
       /\ IF err = ""
          THEN /\ fs' = [fs EXCEPT ![n] = "dir"]
               /\ MkReturn(p)
          ELSE /\ mk' = [mk EXCEPT ![p] = <<Frame(n, "isdir", err)>> \o Tail(@)]
               /\ UNCHANGED <<fs, pc>>
    /\ UNCHANGED <<fs0, script, argv, args, stderr, child, ret, exitcode>>

\* os.makedirs: "except OSError: if not exist_ok or not path.isdir(name): raise"
\* and, in the caller of a recursive call, "except FileExistsError: pass"
MkIsdir(p) ==
    /\ script[p] = "demucs"
    /\ pc[p] = "makedirs"
    /\ Top(p).phase = "isdir"
    /\ LET n == Top(p).name
           err == Top(p).err IN
       /\ calls' = [calls EXCEPT ![p] =
                      IF ExistOk THEN @ \o <<Call("isdir", n, NoCmd, IsDir(fs, n))>> ELSE @]
       /\ IF ExistOk /\ IsDir(fs, n)
          THEN /\ MkReturn(p)
               /\ UNCHANGED <<stderr, ret, exitcode>>
          ELSE IF Len(mk[p]) > 1 /\ err = "FileExistsError"
          THEN /\ MkReturn(p)
               /\ UNCHANGED <<stderr, ret, exitcode>>
          ELSE /\ Uncaught(p, <<err, n>>, stderr[p])
               /\ UNCHANGED mk
    /\ UNCHANGED <<fs0, script, argv, args, fs, child>>

\* a variant whose except clause swallows the failure of process creation
DSpawnSwallowed(p) ==
    /\ script[p] = "demucs"
    /\ pc[p] = "spawn"
    /\ LET cmd == DemucsCmd(args[p])
           log == stderr[p] \o <<Msg("Running command", cmd)>> IN
       \E ok \in BOOLEAN :
          /\ calls' = [calls EXCEPT ![p] = @ \o <<Call("spawn", "", cmd, ok)>>]
          /\ stderr' = [stderr EXCEPT ![p] = log]
          /\ IF ok
             THEN /\ pc' = [pc EXCEPT ![p] = "wait"]
                  /\ UNCHANGED <<ret, exitcode>>
             ELSE Return(p, Result(0))
    /\ UNCHANGED <<fs0, script, argv, args, fs, mk, child>>

\* lines 27-48: build the command, report it, subprocess.run; the child
\* starts, or process creation fails and the exception is caught
DSpawn(p) ==
    /\ script[p] = "demucs"
    /\ pc[p] = "spawn"
    /\ LET cmd == DemucsCmd(args[p])
           log == stderr[p] \o <<Msg("Running command", cmd)>> IN
       \E ok \in BOOLEAN :
          /\ calls' = [calls EXCEPT ![p] = @ \o <<Call("spawn", "", cmd, ok)>>]
          /\ IF ok
             THEN /\ pc' = [pc EXCEPT ![p] = "wait"]
                  /\ stderr' = [stderr EXCEPT ![p] = log]
                  /\ UNCHANGED <<ret, exitcode>>
             ELSE /\ stderr' = [stderr EXCEPT ![p] =
                                  log \o <<Msg("Error running Demucs", <<"OSError">>),
                                           Msg("traceback.print_exc", <<"OSError">>)>>]
                  /\ Return(p, SpawnFailReturn)
    /\ UNCHANGED <<fs0, script, argv, args, fs, mk, child>>

\* a variant that starts the tool again when it ended with a non-zero code
DWaitRetry(p) ==
    /\ script[p] = "demucs"
    /\ pc[p] = "wait"
    /\ \E c \in ChildCodes :
          /\ child' = [child EXCEPT ![p] = <<c>>]
          /\ stderr' = [stderr EXCEPT ![p] = @ \o <<Msg("Demucs exit code", <<c>>)>>]
          /\ IF c # 0 /\ Len(calls[p]) < 12
             THEN /\ pc' = [pc EXCEPT ![p] = "spawn"]
                  /\ UNCHANGED <<ret, exitcode>>
             ELSE Return(p, Result(c))
    /\ UNCHANGED <<fs0, script, argv, args, fs, mk, calls>>

\* lines 41-43: the child ends; its return code is reported and returned
DWait(p) ==
    /\ script[p] = "demucs"
    /\ pc[p] = "wait"
    /\ \E c \in ChildCodes :
          /\ child' = [child EXCEPT ![p] = <<c>>]
          /\ stderr' = [stderr EXCEPT ![p] = @ \o <<Msg("Demucs exit code", <<c>>)>>]
          /\ Return(p, Result(c))
    /\ UNCHANGED <<fs0, script, argv, args, fs, mk, calls>>

(***************************************************************************)
(* spleeter_runner.main                                                    *)
(***************************************************************************)
SParse(p) ==
    /\ script[p] = "spleeter"
    /\ pc[p] = "parse"
    /\ Parse(p, "spawn", <<>>)

\* lines 13-26: build the command, subprocess.call; the child starts, or
\* process creation fails and the exception leaves main()
SSpawn(p) ==
    /\ script[p] = "spleeter"
    /\ pc[p] = "spawn"
    /\ \E ok \in BOOLEAN :
          /\ calls' = [calls EXCEPT ![p] = @ \o <<Call("spawn", "", SpleeterCmd(args[p]), ok)>>]
          /\ IF ok
             THEN /\ pc' = [pc EXCEPT ![p] = "wait"]
                  /\ UNCHANGED <<stderr, ret, exitcode>>
             ELSE Uncaught(p, <<"OSError">>, stderr[p])
    /\ UNCHANGED <<fs0, script, argv, args, fs, mk, child>>

\* line 26: subprocess.call returns the child's return code
SWait(p) ==
    /\ script[p] = "spleeter"
    /\ pc[p] = "wait"
    /\ \E c \in ChildCodes :
          /\ child' = [child EXCEPT ![p] = <<c>>]
          /\ Return(p, Result(c))
    /\ UNCHANGED <<fs0, script, argv, args, fs, mk, calls, stderr>>

(***************************************************************************)
(* The specifications.                                                     *)
(***************************************************************************)
Next ==
    \/ \E p \in Procs : DParse(p)
    \/ \E p \in Procs : DValidate(p)
    \/ \E p \in Procs : MkExists(p)
    \/ \E p \in Procs : MkMkdir(p)
    \/ \E p \in Procs : MkIsdir(p)
    \/ \E p \in Procs : DSpawn(p)
    \/ \E p \in Procs : DWait(p)
    \/ \E p \in Procs : SParse(p)
    \/ \E p \in Procs : SSpawn(p)
    \/ \E p \in Procs : SWait(p)

Spec == Init /\ [][Next]_vars

\* the command lines of the concurrent runs: an existing input file, the
\* output directory o, the model given or defaulted
ConcCmdLines(o) ==
    {<<"--input", "song.wav", "--output", o>> \o m : m \in {<<>>, <<"--model", "mdx">>}}

\* two runs of demucs_runner started on the same output directory, which
\* does not exist yet
InitConc ==
    /\ script = [p \in {1, 2} |-> "demucs"]
    /\ \E o \in {"out", "out/sub"} :
          /\ argv \in [{1, 2} -> ConcCmdLines(o)]
          /\ fs \in {f \in FileSystems : f["song.wav"] = "file" /\ f[o] = "absent"}
    /\ fs0 = fs
    /\ Start({1, 2})

NextConc ==
    \/ \E p \in Procs : DParse(p)
    \/ \E p \in Procs : DValidate(p)
    \/ \E p \in Procs : MkExists(p)
    \/ \E p \in Procs : MkMkdir(p)
    \/ \E p \in Procs : MkIsdir(p)
    \/ \E p \in Procs : DSpawn(p)
    \/ \E p \in Procs : DWait(p)

SpecConc == InitConc /\ [][NextConc]_vars

(***************************************************************************)
(* Vocabulary of the properties.                                           *)
(***************************************************************************)
Demucs(p) == script[p] = "demucs"

Spleeter(p) == script[p] = "spleeter"

Exited(p) == pc[p] = "exit"

\* the calls of run p that ask the operating system to create the child
SpawnCalls(p) == SelectSeq(calls[p], LAMBDA c : c.op = "spawn")

\* the child of run p was started
ChildStarted(p) == \E i \in 1..Len(calls[p]) : calls[p][i].op = "spawn" /\ calls[p][i].ok

\* process creation failed in run p
SpawnFailed(p) == \E i \in 1..Len(calls[p]) : calls[p][i].op = "spawn" /\ ~calls[p][i].ok

\* run p wrote a message with this text to standard error
Wrote(p, text) == \E i \in 1..Len(stderr[p]) : stderr[p][i].text = text

\* flag occurs on the command line of run p
Given(p, flag) == \E i \in 1..Len(argv[p]) : argv[p][i] = flag

\* the token that follows the last occurrence of flag on the command line of run p
LastValue(p, flag) ==
    LET i == CHOOSE i \in 1..Len(argv[p]) :
                 /\ argv[p][i] = flag
                 /\ \A j \in (i + 1)..Len(argv[p]) : argv[p][j] # flag
    IN argv[p][i + 1]

\* the parser accepted the command line of run p
Accepted(p) == args[p].kind = "ok"

\* run p has made the input check, or will never make it
PastParse(p) == pc[p] # "parse"

\* in file system f the directory o exists or can be created with its parents
Creatable(f, o) ==
    /\ Kind(f, o) \in {"absent", "dir", "rodir"}
    /\ Parent(o) # "" =>
          \/ Kind(f, Parent(o)) \in {"absent", "dir"}
          \/ Kind(f, Parent(o)) = "rodir" /\ IsDir(f, o)

\* in file system f the directory o exists, and so do its parents
DirWithParents(f, o) ==
    /\ IsDir(f, o)
    /\ Parent(o) # "" => IsDir(f, Parent(o))

\* the command line of run p lacks a required flag
Omits(p) == ~Given(p, "--input") \/ ~Given(p, "--output")

\* the command line of run p holds a help flag
HelpGiven(p) == \E h \in HelpFlags : Given(p, h)

\* a failure has occurred in run p
Failed(p) ==
    \/ Wrote(p, "usage")
    \/ Wrote(p, "Error: Input file not found")
    \/ Wrote(p, "Traceback")
    \/ SpawnFailed(p)
    \/ child[p] # <<>> /\ child[p] # <<0>>

\* the step adds a spawn call to the calls of run p
SpawnsNow(p) ==
    /\ Len(calls'[p]) = Len(calls[p]) + 1
    /\ calls'[p][Len(calls'[p])].op = "spawn"

(***************************************************************************)
(* C1 (as stated): in both wrappers, when the child was spawned and ended  *)
(* with return code c, the exit status of the wrapper's process is c, for  *)
(* exit codes and for the negative code of a killed child alike.           *)
(***************************************************************************)
C1_AsStated ==
    \A p \in Procs :
        (Exited(p) /\ child[p] # <<>>) => exitcode[p] = child[p]

(***************************************************************************)
(* C1 (amended): in both wrappers, when the child was spawned and ended    *)
(* with return code c, main() returns c and the exit status of the         *)
(* wrapper's process is c modulo 256: it is c for every exit code          *)
(* 0 <= c <= 255, and 256 - N (never 0) for a child killed by signal N,    *)
(* which subprocess reports as c = -N.                                     *)
(***************************************************************************)
C1_ExitCodePropagated ==
    \A p \in Procs :
        (Exited(p) /\ child[p] # <<>>) =>
            LET c == child[p][1] IN
            /\ ChildStarted(p)
            /\ ret[p] = <<c>>
            /\ c \in 0..255 => exitcode[p] = <<c>>
            /\ c < 0 => exitcode[p] = <<256 + c>>
            /\ c # 0 => exitcode[p] # <<0>>

C1_Witness ==
    \E p \in Procs :
        /\ Exited(p) /\ ChildStarted(p)
        /\ child[p] = <<2>> /\ exitcode[p] = <<2>>

(***************************************************************************)
(* C2: in demucs_runner, a run whose --input does not name an existing     *)
(* regular file when it is checked spawns no child, has written the        *)
(* diagnostic naming the path and has ended with exit status 1.            *)
(***************************************************************************)
C2_MissingInputNoSpawn ==
    \A p \in Procs :
        (Demucs(p) /\ Accepted(p) /\ pc[p] \notin {"parse", "validate"}
            /\ ~(Kind(fs, args[p].input) = "file")) =>
            /\ SpawnCalls(p) = <<>>
            /\ child[p] = <<>>
            /\ Exited(p)
            /\ ret[p] = <<1>>
            /\ exitcode[p] = <<1>>
            /\ stderr[p][Len(stderr[p])] =
                  Msg("Error: Input file not found", <<LastValue(p, "--input")>>)

C2_Witness ==
    \E p \in Procs :
        /\ Demucs(p) /\ Exited(p) /\ Accepted(p)
        /\ Kind(fs, args[p].input) = "dir"
        /\ exitcode[p] = <<1>>
        /\ SpawnCalls(p) = <<>>

(***************************************************************************)
(* C3: in demucs_runner, every command vector handed to the process        *)
(* spawner is the 8 tokens [runtime, -m, demucs, -n, selector, -o, output, *)
(* input] with output and input the values given on the command line and   *)
(* selector the --model value, or htdemucs when --model was not given;     *)
(* and a run with an existing input file and a creatable output directory  *)
(* hands over exactly one such vector.                                     *)
(***************************************************************************)
C3_DemucsArgv ==
    \A p \in Procs :
        Demucs(p) =>
            /\ \A i \in 1..Len(calls[p]) :
                  calls[p][i].op = "spawn" =>
                      /\ Len(calls[p][i].cmd) = 8
                      /\ calls[p][i].cmd =
                            << Executable, "-m", "demucs", "-n",
                               IF Given(p, "--model") THEN LastValue(p, "--model")
                                                      ELSE "htdemucs",
                               "-o", LastValue(p, "--output"), LastValue(p, "--input") >>
            /\ (Exited(p) /\ Accepted(p) /\ IsFile(fs0, args[p].input)
                  /\ Creatable(fs0, args[p].output)) => Len(SpawnCalls(p)) = 1

C3_Witness ==
    \E p \in Procs :
        /\ Demucs(p) /\ Exited(p) /\ ChildStarted(p)
        /\ ~Given(p, "--model")
        /\ Kind(fs0, args[p].output) = "absent"
        /\ calls[p][Len(calls[p])].cmd =
              <<Executable, "-m", "demucs", "-n", "htdemucs", "-o", "out", "song.wav">>

(***************************************************************************)
(* C4: in spleeter_runner, a run whose command line supplies --input and   *)
(* --output and is accepted by the parser hands the process spawner        *)
(* exactly [runtime, -m, spleeter, separate, -p, selector, -i, input, -o,  *)
(* output] (selector the --preset value, or spleeter:2stems), whether or   *)
(* not the input exists; the spawn is the only call the run makes: it      *)
(* checks no path and creates no directory.                                *)
(***************************************************************************)
C4_SpleeterArgv ==
    \A p \in Procs :
        (Spleeter(p) /\ Accepted(p) /\ pc[p] \in {"wait", "exit"}) =>
            /\ Given(p, "--input") /\ Given(p, "--output")
            /\ Len(calls[p]) = 1
            /\ calls[p][1].op = "spawn"
            /\ Len(calls[p][1].cmd) = 10
            /\ calls[p][1].cmd =
                  << Executable, "-m", "spleeter", "separate", "-p",
                     IF Given(p, "--preset") THEN LastValue(p, "--preset")
                                             ELSE "spleeter:2stems",
                     "-i", LastValue(p, "--input"), "-o", LastValue(p, "--output") >>
            /\ fs = fs0

C4_Witness ==
    \E p \in Procs :
        /\ Spleeter(p) /\ ChildStarted(p)
        /\ ~Given(p, "--preset")
        /\ Kind(fs, args[p].input) = "absent"
        /\ Kind(fs, args[p].output) = "absent"
        /\ args[p].input # args[p].output

(***************************************************************************)
(* C5: in demucs_runner, at every step that spawns the child the --output  *)
(* directory and its parents exist as directories (os.makedirs has created *)
(* what was missing), and a run whose --output already was a directory     *)
(* when it started does not fail in the creation step.                     *)
(***************************************************************************)
C5_OutputDirBeforeSpawn ==
    /\ [](\A p \in Procs :
             (Demucs(p) /\ Accepted(p) /\ pc[p] \in {"spawn", "wait", "exit"}
                 /\ IsFile(fs0, args[p].input) /\ IsDir(fs0, args[p].output)) =>
                 /\ ~Wrote(p, "Traceback")
                 /\ SpawnCalls(p) # <<>> \/ pc[p] = "spawn")
    /\ [][\A p \in Procs :
             (Demucs(p) /\ SpawnsNow(p)) => DirWithParents(fs, args[p].output)]_vars

C5_Witness ==
    \E p \in Procs :
        /\ Demucs(p) /\ ChildStarted(p)
        /\ args[p].output = "out/sub"
        /\ Kind(fs0, "out") = "absent" /\ Kind(fs0, "out/sub") = "absent"
        /\ DirWithParents(fs, "out/sub")

(***************************************************************************)
(* C6 (as stated): in both wrappers, when process creation fails the       *)
(* failure is caught (main() returns 1 instead of raising), a diagnostic   *)
(* is on standard error and the exit status is 1.                          *)
(***************************************************************************)
C6_AsStated ==
    \A p \in Procs :
        SpawnFailed(p) =>
            /\ ret[p] = <<1>>
            /\ stderr[p] # <<>>
            /\ exitcode[p] = <<1>>

(***************************************************************************)
(* C6 (amended): when process creation fails, both wrappers end with exit  *)
(* status 1 and a diagnostic on standard error, without a child.           *)
(* demucs_runner catches the failure: it writes "Error running Demucs"     *)
(* and the trace, and main() returns 1.  spleeter_runner does not catch    *)
(* it: the exception leaves main(), and the interpreter writes the         *)
(* traceback and ends the process with status 1.                           *)
(***************************************************************************)
C6_SpawnFailure ==
    \A p \in Procs :
        SpawnFailed(p) =>
            /\ Exited(p)
            /\ exitcode[p] = <<1>>
            /\ child[p] = <<>>
            /\ Len(SpawnCalls(p)) = 1
            /\ Demucs(p) =>
                  /\ ret[p] = <<1>>
                  /\ Wrote(p, "Error running Demucs")
                  /\ Wrote(p, "traceback.print_exc")
                  /\ ~Wrote(p, "Traceback")
            /\ Spleeter(p) =>
                  /\ ret[p] = <<>>
                  /\ stderr[p] = <<Msg("Traceback", <<"OSError">>)>>

C6_Witness ==
    \E p \in Procs :
        /\ Demucs(p) /\ SpawnFailed(p) /\ Exited(p)
        /\ ret[p] = <<1>> /\ exitcode[p] = <<1>>

(***************************************************************************)
(* C7 (as stated): in both wrappers, a run whose command line omits        *)
(* --input or --output ends with a non-zero status before any later step:  *)
(* no input check, no directory creation, no spawn.                        *)
(***************************************************************************)
C7_AsStated ==
    \A p \in Procs :
        (PastParse(p) /\ Omits(p)) =>
            /\ Exited(p)
            /\ exitcode[p] # <<0>>
            /\ calls[p] = <<>>
            /\ fs = fs0

(***************************************************************************)
(* C7 (amended): in both wrappers, a run whose command line omits --input  *)
(* or --output ends in the parser before any later step: no input check,   *)
(* no directory creation, no spawn.  Its exit status is the usage status 2 *)
(* (with a usage message on standard error) unless the command line holds  *)
(* a help flag (-h, --help), in which case the parser may instead print    *)
(* the help and end the run with status 0.                                 *)
(***************************************************************************)
C7_OmittedRequiredFlag ==
    \A p \in Procs :
        (PastParse(p) /\ Omits(p)) =>
            /\ Exited(p)
            /\ calls[p] = <<>>
            /\ child[p] = <<>>
            /\ ret[p] = <<>>
            /\ fs = fs0
            /\ \/ exitcode[p] = <<2>> /\ Wrote(p, "usage")
               \/ exitcode[p] = <<0>> /\ HelpGiven(p)
            /\ ~HelpGiven(p) => exitcode[p] = <<2>>

C7_Witness ==
    \E p \in Procs :
        /\ Exited(p)
        /\ Given(p, "--input") /\ ~Given(p, "--output") /\ ~HelpGiven(p)
        /\ IsFile(fs, LastValue(p, "--input"))
        /\ exitcode[p] = <<2>>
        /\ calls[p] = <<>>

(***************************************************************************)
(* C8 (as stated): every failure is fatal at once and nothing is retried:  *)
(* a run spawns at most once; once a usage error, a missing input, a       *)
(* failed directory creation, a failed process creation or a non-zero      *)
(* child code has occurred the run has ended with a non-zero status; and   *)
(* a run ends with status 0 only if its child was spawned and ended        *)
(* with 0.                                                                 *)
(***************************************************************************)
C8_AsStated ==
    \A p \in Procs :
        /\ Len(SpawnCalls(p)) <= 1
        /\ Failed(p) => (Exited(p) /\ exitcode[p] # <<0>>)
        /\ exitcode[p] = <<0>> => (ChildStarted(p) /\ child[p] = <<0>>)

(***************************************************************************)
(* C8 (amended): as stated, except that a run also ends with status 0,     *)
(* without any spawn, when the parser meets a help flag (-h, --help): a    *)
(* run ends with status 0 only if its child was spawned and ended with 0,  *)
(* or the parser printed the help.                                         *)
(***************************************************************************)
C8_FailuresFatal ==
    \A p \in Procs :
        /\ Len(SpawnCalls(p)) <= 1
        /\ Failed(p) => (Exited(p) /\ exitcode[p] # <<0>>)
        /\ exitcode[p] = <<0>> =>
              \/ ChildStarted(p) /\ child[p] = <<0>>
              \/ HelpGiven(p) /\ calls[p] = <<>> /\ ~Failed(p)

C8_Witness ==
    \E p \in Procs :
        /\ Exited(p) /\ ChildStarted(p)
        /\ child[p] = <<1>> /\ exitcode[p] = <<1>>
        /\ Len(SpawnCalls(p)) = 1

(***************************************************************************)
(* C9: two runs of demucs_runner started together on the same, not yet     *)
(* existing --output directory with existing input files do not disturb    *)
(* each other, however their checks, directory creations and spawns        *)
(* interleave: no run fails in the creation step when the directory can    *)
(* be created, each run spawns exactly once, with the command vector of    *)
(* its own command line and into an existing output directory, and each    *)
(* run returns the code of its own child.                                  *)
(***************************************************************************)
C9_ConcurrentRunsIndependent ==
    \A p \in Procs :
        /\ Len(SpawnCalls(p)) <= 1
        /\ Creatable(fs0, args[p].output) => ~Wrote(p, "Traceback")
        /\ (Exited(p) /\ Creatable(fs0, args[p].output)) => Len(SpawnCalls(p)) = 1
        /\ \A i \in 1..Len(calls[p]) :
              calls[p][i].op = "spawn" =>
                  /\ DirWithParents(fs, args[p].output)
                  /\ calls[p][i].cmd =
                        << Executable, "-m", "demucs", "-n",
                           IF Given(p, "--model") THEN LastValue(p, "--model")
                                                  ELSE "htdemucs",
                           "-o", LastValue(p, "--output"), LastValue(p, "--input") >>
        /\ (Exited(p) /\ ChildStarted(p)) =>
              /\ child[p] # <<>>
              /\ ret[p] = child[p]
              /\ exitcode[p] = <<child[p][1] % 256>>

\* both runs have ended, with different command lines and different child
\* codes, after one of them lost the race for a directory
C9_Witness ==
    /\ Procs = {1, 2}
    /\ \A p \in Procs : Exited(p) /\ ChildStarted(p) /\ args[p].output = "out/sub"
    /\ Kind(fs0, "out") = "absent"
    /\ argv[1] # argv[2]
    /\ child[1] = <<0>> /\ child[2] = <<2>>
    /\ ret[1] = <<0>> /\ ret[2] = <<2>>
    /\ \E p \in Procs : \E i \in 1..Len(calls[p]) :
          calls[p][i].op = "mkdir" /\ ~calls[p][i].ok

(***************************************************************************)
(* C10: in demucs_runner, a run that fails the input check leaves the file *)
(* system as it found it: the check comes before os.makedirs, so the       *)
(* --output directory and its parents are not created by that run.         *)
(***************************************************************************)
C10_FailedCheckNoMkdir ==
    \A p \in Procs :
        (Demucs(p) /\ Accepted(p) /\ pc[p] \notin {"parse", "validate"}
            /\ ~(Kind(fs0, args[p].input) = "file")) =>
            /\ fs = fs0
            /\ Len(calls[p]) = 1
            /\ calls[p][1].op = "isfile"
            /\ mk[p] = <<>>

C10_Witness ==
    \E p \in Procs :
        /\ Demucs(p) /\ Exited(p) /\ Accepted(p)
        /\ Wrote(p, "Error: Input file not found")
        /\ args[p].output = "out/sub"
        /\ Kind(fs, "out") = "absent" /\ Kind(fs, "out/sub") = "absent"

====
